---- MODULE Spec2Model ----
(***************************************************************************)
(* Gesture recognition of suying01/bleh: the static pose classifier with   *)
(* its module-level motion history (src/lib/gesture-recognizer.ts), the    *)
(* GestureBuffer and the dynamic gesture matcher (src/unnamed/part_000),   *)
(* and the game components that call them.                                 *)
(*                                                                         *)
(* Coordinates are integers in units of 0.001 of the normalized image      *)
(* size, so 0.02 is 20 and 0.05 is 50.  Math.hypot(dx, dy) is compared     *)
(* through its square: hypot(a) < t  iff  a.x^2 + a.y^2 < t^2 for t >= 0.  *)
(***************************************************************************)
EXTENDS Integers, Sequences, FiniteSets, TLC

VARIABLES
    prevLandmarks,     \* gesture-recognizer.ts:6   hand of an earlier call, or Null
    verticalHistory,   \* gesture-recognizer.ts:7   sequence of -1 / +1
    lastLandmarks,     \* argument of the latest recognizeGesture call
    lastGesture,       \* value returned by the latest recognizeGesture call
    historyAfterUpdate,\* verticalHistory of the latest call right before its shake check
    prevAtCall,        \* prevLandmarks as the latest call found it
    historyAtCall,     \* verticalHistory as the latest call found it
    mounted,           \* page.tsx: a game component is on screen
    gameActive,        \* SignStreamGame: a game is being played
    sessions,          \* games started so far
    sessionCalls,      \* recognizeGesture calls since the latest mount or game start
    buffer,            \* GestureBuffer.buffer
    maxSize,           \* GestureBuffer.maxSize
    added,             \* frames passed to add() since creation or the latest clear()
    dynResult,         \* value returned by recognizeDynamicGesture on the buffer as it is,
                       \* "pending" when it was not called since the buffer changed
    dynCalls,          \* recognizeDynamicGesture calls since the buffer changed
    scene,             \* what the camera is looking at
    sceneChanged,      \* the performer has changed the scene once
    tick,              \* video ticks delivered since the stream (re)started
    orientLandmarks,   \* argument of the latest checkOrientation call
    lastOrientation,       \* value it returned, "pending" before the first call
    orientEarlier,     \* argument and value of the call before it, or Null
    tiles,             \* SignStreamGame.tsx:50  tiles on screen, oldest first
    detectedGesture,   \* SignStreamGame.tsx:58
    streak,            \* SignStreamGame.tsx     hits in a row
    nextCharIndex,     \* SignStreamGame.tsx     characters of the phrase spawned so far
    currentPhraseIndex,\* SignStreamGame.tsx     0-based index into stage.phrases
    countdown,         \* TRUE while startGame's countdown interval is running
    gameOver,          \* SignStreamGame.tsx
    hitCheckPending,   \* a dependency of the hit-check effect changed since it last ran
    games,             \* startGame calls so far
    spawned,           \* tiles created so far; the next tile's id
    beatTimerRef,      \* part_002:105  beatTimerRef.current, 0 for null
    liveIntervals,     \* ids of the intervals set and not cleared
    nextTimerId,       \* the id the next setInterval returns
    pendingTimeouts,   \* timeouts set by the beat effect and not fired yet
    currentBeat,       \* part_002:329  of the beat effect's closure
    loopsCompleted,    \* part_002:330
    stageIndexRef,     \* part_002:106  stageIndexRef.current
    activeSlot,        \* part_002:79
    slotStatus,        \* part_002:80
    cleanupRun,        \* the cleanup of the latest run of the beat effect has run
    tickAfterCleanup,  \* a beat tick has executed after that cleanup
    starts             \* handleStart calls so far

vars == <<prevLandmarks, verticalHistory, lastLandmarks, lastGesture,
          historyAfterUpdate, prevAtCall, historyAtCall, mounted, gameActive,
          sessions, sessionCalls, buffer, maxSize, added, dynResult, dynCalls, scene,
          sceneChanged, tick, orientLandmarks, lastOrientation, orientEarlier,
          tiles, detectedGesture, streak, nextCharIndex, currentPhraseIndex,
          countdown, gameOver, hitCheckPending, games, spawned,
          beatTimerRef, liveIntervals, nextTimerId, pendingTimeouts, currentBeat,
          loopsCompleted, stageIndexRef, activeSlot, slotStatus, cleanupRun,
          tickAfterCleanup, starts>>

staticVars == <<prevLandmarks, verticalHistory, lastLandmarks, lastGesture,
                historyAfterUpdate, prevAtCall, historyAtCall>>
sessionVars == <<mounted, gameActive, sessions, sessionCalls>>
bufferVars == <<buffer, maxSize, added>>
dynVars == <<dynResult, dynCalls, scene, sceneChanged, tick>>
orientVars == <<orientLandmarks, lastOrientation, orientEarlier>>
streamVars == <<tiles, detectedGesture, streak, nextCharIndex, currentPhraseIndex,
                countdown, gameOver, hitCheckPending, games, spawned>>
beatVars == <<beatTimerRef, liveIntervals, nextTimerId, pendingTimeouts, currentBeat,
              loopsCompleted, stageIndexRef, activeSlot, slotStatus, cleanupRun,
              tickAfterCleanup, starts>>
extraVars == <<orientVars, streamVars, beatVars>>

(***************************************************************************)
(* Landmark model                                                          *)
(***************************************************************************)

\* null, and the empty landmark array: both take the first return of
\* checkOrientation and recognizeGesture.
Null == <<>>

\* new GestureBuffer() : constructor(maxSize: number = 30)
DefaultMaxSize == 30

Pt(px, py) == [x |-> px, y |-> py, z |-> 0]

Sq(n) == n * n

\* const dist = (a, b) => Math.hypot(a.x - b.x, a.y - b.y), squared
dist2(a, b) == Sq(a.x - b.x) + Sq(a.y - b.y)

Abs(n) == IF n < 0 THEN -n ELSE n

(***************************************************************************)
(* Static pose classifier, src/lib/gesture-recognizer.ts                   *)
(***************************************************************************)

\* checkOrientation taking the upper half of the image for UP
checkOrientationAbsolute(landmarks) ==
    IF landmarks = Null THEN "NONE"
    ELSE LET wrist == landmarks[0]
             indexTip == landmarks[8]
             dx == Abs(indexTip.x - wrist.x)
             dy == Abs(indexTip.y - wrist.y)
         IN  IF dx > dy THEN "SIDE"
             ELSE IF indexTip.y < 500 THEN "UP"
             ELSE "DOWN"

\* checkOrientation taking equal displacements for SIDE
checkOrientationTies(landmarks) ==
    IF landmarks = Null THEN "NONE"
    ELSE LET wrist == landmarks[0]
             indexTip == landmarks[8]
             dx == Abs(indexTip.x - wrist.x)
             dy == Abs(indexTip.y - wrist.y)
         IN  IF dx >= dy THEN "SIDE"
             ELSE IF indexTip.y < wrist.y THEN "UP"
             ELSE "DOWN"

\* checkOrientation
checkOrientation(landmarks) ==
    IF landmarks = Null THEN "NONE"
    ELSE LET wrist == landmarks[0]
             indexTip == landmarks[8]
             dx == Abs(indexTip.x - wrist.x)
             dy == Abs(indexTip.y - wrist.y)
         IN  IF dx > dy THEN "SIDE"
             ELSE IF indexTip.y < wrist.y THEN "UP"
             ELSE "DOWN"

\* const isExtended = (tip, pip) => dist(tip, wrist) > dist(pip, wrist)
isExtended(tip, pip, wrist) == dist2(tip, wrist) > dist2(pip, wrist)

\* const isThumbExtended = () => dist(thumbTip, indexMcp) > dist(thumbIp, indexMcp)
isThumbExtended(landmarks) ==
    dist2(landmarks[4], landmarks[5]) > dist2(landmarks[3], landmarks[5])

\* dist(a, b) < t, t in units of 0.001
Near(a, b, t) == dist2(a, b) < Sq(t)

\* A return of the letter logic: the label, and whether the path assigns
\* prevLandmarks = landmarks before it returns.
Ret(l) == [label |-> l, recordsPrev |-> FALSE]
RetRecording(l) == [label |-> l, recordsPrev |-> TRUE]

\* The fist group testing S before T, N and M
FistGroupSFirst(landmarks, thumbOpen) ==
    LET thumbTip == landmarks[4]
    IN  IF thumbOpen THEN Ret("A")
        ELSE IF Near(thumbTip, landmarks[7], 50) THEN Ret("S")
        ELSE IF Near(thumbTip, landmarks[6], 50) \/ Near(thumbTip, landmarks[5], 50)
             THEN Ret("T")
        ELSE IF Near(thumbTip, landmarks[10], 50) \/ Near(thumbTip, landmarks[9], 50)
             THEN Ret("N")
        ELSE IF Near(thumbTip, landmarks[14], 50) \/ Near(thumbTip, landmarks[18], 50)
             THEN Ret("M")
        ELSE Ret("E")

\* 1. Fist / Curled Fingers Group (A, E, S, T, M, N)
FistGroup(landmarks, thumbOpen) ==
    LET thumbTip == landmarks[4]
    IN  IF thumbOpen THEN Ret("A")
        ELSE IF Near(thumbTip, landmarks[6], 50) \/ Near(thumbTip, landmarks[5], 50)
             THEN Ret("T")
        ELSE IF Near(thumbTip, landmarks[10], 50) \/ Near(thumbTip, landmarks[9], 50)
             THEN Ret("N")
        ELSE IF Near(thumbTip, landmarks[14], 50) \/ Near(thumbTip, landmarks[18], 50)
             THEN Ret("M")
        ELSE IF Near(thumbTip, landmarks[7], 50) THEN Ret("S")
        ELSE Ret("E")

\* The index-only group testing the DOWN orientation before the thumb
IndexGroupDownFirst(landmarks, thumbOpen, orientation) ==
    IF orientation = "DOWN"
    THEN IF thumbOpen THEN Ret("Q") ELSE Ret("Z")
    ELSE IF thumbOpen
         THEN IF orientation = "SIDE" THEN Ret("G") ELSE Ret("L")
    ELSE IF orientation = "SIDE" THEN Ret("G")
    ELSE IF Near(landmarks[8], landmarks[6], 80) THEN Ret("X")
    ELSE Ret("D")

\* 2. Index Only Group (D, Z, X, L, G, P, Q)
IndexGroup(landmarks, thumbOpen, orientation) ==
    IF thumbOpen
    THEN IF orientation = "SIDE" THEN Ret("G") ELSE Ret("L")
    ELSE IF orientation = "DOWN"
         THEN IF thumbOpen THEN Ret("Q") ELSE Ret("Z")
    ELSE IF orientation = "SIDE" THEN Ret("G")
    ELSE IF Near(landmarks[8], landmarks[6], 80) THEN Ret("X")
    ELSE Ret("D")

\* 3. Index + Middle Group (U, V, H, K, P, R)
IndexMiddleGroup(landmarks, orientation) ==
    IF orientation = "DOWN" THEN Ret("P")
    ELSE IF orientation = "SIDE" THEN Ret("H")
    ELSE IF Near(landmarks[8], landmarks[12], 30) THEN Ret("U")
    ELSE IF Near(landmarks[4], landmarks[10], 60) THEN Ret("K")
    ELSE Ret("V")

\* The letter branches of recognizeGesture, lines 125-270
LetterLogic(landmarks) ==
    LET orientation == checkOrientation(landmarks)
        wrist == landmarks[0]
        thumbTip == landmarks[4]
        indexTip == landmarks[8]
        middleTip == landmarks[12]
        thumbOpen == isThumbExtended(landmarks)
        indexOpen == isExtended(indexTip, landmarks[6], wrist)
        middleOpen == isExtended(middleTip, landmarks[10], wrist)
        ringOpen == isExtended(landmarks[16], landmarks[14], wrist)
        pinkyOpen == isExtended(landmarks[20], landmarks[18], wrist)
        dThumbIndex2 == dist2(thumbTip, indexTip)
    IN  IF ~indexOpen /\ ~middleOpen /\ ~ringOpen /\ ~pinkyOpen
             THEN FistGroup(landmarks, thumbOpen)
        ELSE IF indexOpen /\ ~middleOpen /\ ~ringOpen /\ ~pinkyOpen
             THEN IndexGroup(landmarks, thumbOpen, orientation)
        ELSE IF indexOpen /\ middleOpen /\ ~ringOpen /\ ~pinkyOpen
             THEN IndexMiddleGroup(landmarks, orientation)
        ELSE IF indexOpen /\ middleOpen /\ ringOpen /\ ~pinkyOpen THEN Ret("W")
        ELSE IF ~indexOpen /\ ~middleOpen /\ ~ringOpen /\ pinkyOpen
             THEN IF thumbOpen THEN Ret("Y") ELSE Ret("I")
        ELSE IF ~indexOpen /\ middleOpen /\ ringOpen /\ pinkyOpen THEN Ret("F")
        ELSE IF middleOpen /\ ringOpen /\ pinkyOpen /\ Near(thumbTip, indexTip, 60)
             THEN Ret("F")
        ELSE IF Near(thumbTip, indexTip, 60) /\ Near(thumbTip, middleTip, 60)
             THEN Ret("O")
        ELSE IF indexOpen /\ middleOpen /\ ringOpen /\ pinkyOpen
             THEN IF dThumbIndex2 > Sq(50) /\ dThumbIndex2 < Sq(250)
                  THEN Ret("C") ELSE Ret("B")
        ELSE RetRecording("NONE")

(***************************************************************************)
(* Hands the landmark detector delivers.  A hand is a pose template moved  *)
(* so that its wrist is at (wx, wy); the templates point up (y decreases   *)
(* towards the top of the image).                                          *)
(***************************************************************************)

\* index, middle, ring, pinky as <<MCP, PIP, DIP, TIP>> offsets from the wrist
FingerUp(fx, short) ==
    << <<fx, -100 + short>>, <<fx, -140 + short>>, <<fx, -170 + 2 * short>>,
       <<fx, -200 + 3 * short>> >>
FingerCurled(fx, short) ==
    << <<fx, -100 + short>>, <<fx, -140 + short>>, <<fx, -130 + short>>,
       <<fx, -95 + short>> >>
Finger(up, fx, short) == IF up THEN FingerUp(fx, short) ELSE FingerCurled(fx, short)

\* thumb as <<CMC, MCP, IP, TIP>> offsets from the wrist
ThumbOut == << <<-30, -20>>, <<-55, -45>>, <<-75, -70>>, <<-95, -100>> >>
ThumbTucked == << <<-30, -20>>, <<-45, -40>>, <<-50, -60>>, <<-40, -75>> >>

\* index and middle bent towards the thumb tip
FingerPinched(fx, tipx) ==
    << <<fx, -100>>, <<fx, -140>>, <<fx, -130>>, <<tipx, -115>> >>
ThumbPinched == << <<-30, -20>>, <<-45, -45>>, <<-40, -75>>, <<-15, -100>> >>

Offsets(thumb, i, m, r, p) ==
    << <<0, 0>> >> \o thumb \o Finger(i, -30, 0) \o Finger(m, 0, 0)
        \o Finger(r, 30, 0) \o Finger(p, 60, 10)

Template(shape) ==
    CASE shape = "HORNS" -> Offsets(ThumbOut, TRUE, FALSE, FALSE, TRUE)
      [] shape = "FIST"  -> Offsets(ThumbOut, FALSE, FALSE, FALSE, FALSE)
      [] shape = "FLAT"  -> Offsets(ThumbOut, TRUE, TRUE, TRUE, TRUE)
      [] shape = "POINT" -> Offsets(ThumbTucked, TRUE, FALSE, FALSE, FALSE)
      [] shape = "YHAND" -> Offsets(ThumbOut, FALSE, FALSE, FALSE, TRUE)
      [] shape = "FISTT" -> Offsets(ThumbTucked, FALSE, FALSE, FALSE, FALSE)
      [] shape = "IHAND" -> Offsets(ThumbTucked, FALSE, FALSE, FALSE, TRUE)
      [] shape = "TAP"   ->
            << <<0, 0>> >> \o ThumbPinched \o FingerPinched(-30, -20)
                \o FingerPinched(0, -5) \o Finger(FALSE, 30, 0) \o Finger(FALSE, 60, 10)

HandAt(shape, wx, wy) ==
    LET t == Template(shape)
    IN  [i \in 0..20 |-> Pt(wx + t[i + 1][1], wy + t[i + 1][2])]

\* Wrist heights of the hands given to recognizeGesture: 479, 500 and 520 are
\* 21 and 20 apart, on both sides of the 0.02 threshold.
WristYs == {479, 500, 520}

\* HORNS (index and pinky up) matches no letter group, FIST is an A, FLAT a C.
StaticHands ==
    {HandAt("HORNS", 500, wy) : wy \in WristYs}
        \cup {HandAt("FIST", 500, 479), HandAt("FLAT", 500, 520)}

(***************************************************************************)
(* Poses given to the letter branches: the fingers up or curled, the thumb *)
(* tip and the thumb IP joint at chosen places, and the index DIP joint    *)
(* either in line with the finger or bent out to the thumb side.  Offsets  *)
(* are from the wrist.                                                     *)
(***************************************************************************)

ThumbWith(ip, tip) == << <<-30, -20>>, <<-55, -45>>, ip, tip >>

IndexFinger(up, dipOut) ==
    << <<-30, -100>>, <<-30, -140>>,
       IF dipOut THEN <<-90, -140>> ELSE IF up THEN <<-30, -170>> ELSE <<-30, -130>>,
       IF up THEN <<-30, -200>> ELSE <<-30, -95>> >>

\* fingers = <<index, middle, ring, pinky>>, TRUE for a finger held up
LetterHand(fingers, ip, tip, dipOut) ==
    LET t == << <<0, 0>> >> \o ThumbWith(ip, tip) \o IndexFinger(fingers[1], dipOut)
                 \o Finger(fingers[2], 0, 0) \o Finger(fingers[3], 30, 0)
                 \o Finger(fingers[4], 60, 10)
    IN  [i \in 0..20 |-> Pt(500 + t[i + 1][1], 700 + t[i + 1][2])]

\* Thumb IP close to the index MCP (44.7 away) and far from it (98.5 away)
ThumbIps == {<<-50, -60>>, <<-120, -60>>}

\* Thumb tips of the fists: beside the hand, at the index MCP (inside 0.05,
\* at 0.040 and 0.045), 0.050 from the index MCP next to the middle MCP, at the
\* ring PIP, at the bent-out index DIP, and between two of the joints
FistThumbTips ==
    {<<-95, -100>>, <<-40, -75>>, <<-70, -100>>, <<-75, -100>>, <<20, -100>>,
     <<50, -130>>, <<-100, -150>>, <<-40, -120>>, <<-15, -120>>, <<25, -135>>}

\* Thumb tips of the open hands: 0.0212 from both the index and the middle
\* tip, then 0.0412, 0.050, 0.055, 0.060, 0.119, 0.250 and 0.260 from the index tip
OpenThumbTips ==
    {<<-15, -185>>, <<-70, -190>>, <<-80, -200>>, <<-85, -200>>, <<-90, -200>>,
     <<-95, -100>>, <<-280, -200>>, <<-290, -200>>}

\* Thumb tips of the other poses: beside the hand, and between the index and
\* middle tips when both are up, one is up, or both are curled
PinchThumbTips == {<<-95, -100>>, <<-15, -185>>, <<-15, -148>>, <<-15, -95>>}

FingerSets == [1..4 -> BOOLEAN]

\* A hand turned about its wrist to point down or to the side
Turned(hand, o) ==
    LET w == hand[0]
    IN  [i \in 0..20 |->
            IF o = "DOWN" THEN Pt(2 * w.x - hand[i].x, 2 * w.y - hand[i].y)
            ELSE IF o = "SIDE" THEN Pt(w.x - (hand[i].y - w.y), w.y + (hand[i].x - w.x))
            ELSE hand[i]]

\* Index-only and index+middle hands, thumb out and thumb tucked, pointing
\* down and to the side
TurnedHands ==
    {Turned(LetterHand(f, <<-50, -60>>, tip, FALSE), o) :
        f \in {<<TRUE, FALSE, FALSE, FALSE>>, <<TRUE, TRUE, FALSE, FALSE>>},
        tip \in {<<-95, -100>>, <<-40, -75>>}, o \in {"DOWN", "SIDE"}}

LetterHands ==
    TurnedHands \cup
    {LetterHand(<<FALSE, FALSE, FALSE, FALSE>>, ip, tip, dipOut) :
        ip \in ThumbIps, tip \in FistThumbTips, dipOut \in BOOLEAN}
    \cup {LetterHand(<<TRUE, TRUE, TRUE, TRUE>>, <<-50, -60>>, tip, FALSE) :
              tip \in OpenThumbTips}
    \cup {LetterHand(f, <<-50, -60>>, tip, FALSE) :
              f \in FingerSets \ {<<FALSE, FALSE, FALSE, FALSE>>, <<TRUE, TRUE, TRUE, TRUE>>},
              tip \in PinchThumbTips}

\* LetterLogic tabulated once over the hands of the model
LetterTable == [h \in StaticHands \cup LetterHands |-> LetterLogic(h)]

LetterOf(landmarks) ==
    IF landmarks \in DOMAIN LetterTable THEN LetterTable[landmarks]
    ELSE LetterLogic(landmarks)

\* if (verticalHistory.length > 6) { count changes; if (directionChanges >= 4) ... }
directionChanges(history) ==
    Cardinality({i \in 2..Len(history) : history[i] # history[i - 1]})

\* The shake test asking for 5 direction changes
ShakeDetectedAtFiveChanges(history) == Len(history) > 6 /\ directionChanges(history) >= 5

\* The shake test taking 6 entries for enough
ShakeDetectedAtSix(history) == Len(history) > 5 /\ directionChanges(history) >= 4

ShakeDetected(history) == Len(history) > 6 /\ directionChanges(history) >= 4

\* The direction without its dead zone
verticalDirNoDeadZone(dy) == IF dy > 0 THEN 1 ELSE IF dy < 0 THEN -1 ELSE 0

\* let verticalDir = 0; if (dy < -0.02) verticalDir = -1; if (dy > 0.02) verticalDir = +1
verticalDir(dy) == IF dy > 20 THEN 1 ELSE IF dy < -20 THEN -1 ELSE 0

\* verticalHistory.push(verticalDir); if (verticalHistory.length > 20) verticalHistory.shift()
PushDir(history, dir) ==
    LET pushed == Append(history, dir)
    IN  IF Len(pushed) > 20 THEN Tail(pushed) ELSE pushed

\* if (prevLandmarks) { ... if (verticalDir !== 0) { push; shift } }
UpdateHistory(prev, history, landmarks) ==
    IF prev = Null THEN history
    ELSE LET dir == verticalDir(landmarks[0].y - prev[0].y)
         IN  IF dir # 0 THEN PushDir(history, dir) ELSE history

\* recognizeGesture without "verticalHistory = []" in its shake branch
recognizeGestureKeepHistory(prev, history, landmarks) ==
    IF landmarks = Null
    THEN [gesture |-> "NONE", prev |-> prev, history |-> history, updated |-> history]
    ELSE LET updated == UpdateHistory(prev, history, landmarks)
             letter == LetterOf(landmarks)
         IN  IF ShakeDetected(updated)
             THEN [gesture |-> "6-7", prev |-> landmarks, history |-> updated,
                   updated |-> updated]
             ELSE [gesture |-> letter.label,
                   prev |-> IF letter.recordsPrev THEN landmarks ELSE prev,
                   history |-> updated, updated |-> updated]

\* recognizeGesture assigning prevLandmarks = landmarks on every return with a hand
recognizeGestureRecordingAlways(prev, history, landmarks) ==
    IF landmarks = Null
    THEN [gesture |-> "NONE", prev |-> prev, history |-> history, updated |-> history]
    ELSE LET updated == UpdateHistory(prev, history, landmarks)
             letter == LetterOf(landmarks)
         IN  IF ShakeDetected(updated)
             THEN [gesture |-> "6-7", prev |-> landmarks, history |-> <<>>,
                   updated |-> updated]
             ELSE [gesture |-> letter.label, prev |-> landmarks,
                   history |-> updated, updated |-> updated]

\* recognizeGesture forgetting the stored previous frame when it is given no hand
recognizeGestureForgetOnEmpty(prev, history, landmarks) ==
    IF landmarks = Null
    THEN [gesture |-> "NONE", prev |-> Null, history |-> history, updated |-> history]
    ELSE LET updated == UpdateHistory(prev, history, landmarks)
             letter == LetterOf(landmarks)
         IN  IF ShakeDetected(updated)
             THEN [gesture |-> "6-7", prev |-> landmarks, history |-> <<>>,
                   updated |-> updated]
             ELSE [gesture |-> letter.label,
                   prev |-> IF letter.recordsPrev THEN landmarks ELSE prev,
                   history |-> updated, updated |-> updated]

\* recognizeGesture(landmarks): the value returned and the module state left behind
recognizeGesture(prev, history, landmarks) ==
    IF landmarks = Null
    THEN [gesture |-> "NONE", prev |-> prev, history |-> history, updated |-> history]
    ELSE LET updated == UpdateHistory(prev, history, landmarks)
             letter == LetterOf(landmarks)
         IN  IF ShakeDetected(updated)
             THEN [gesture |-> "6-7", prev |-> landmarks, history |-> <<>>,
                   updated |-> updated]
             ELSE [gesture |-> letter.label,
                   prev |-> IF letter.recordsPrev THEN landmarks ELSE prev,
                   history |-> updated, updated |-> updated]

(***************************************************************************)
(* Calls of recognizeGesture                                               *)
(***************************************************************************)

InitStatic ==
    /\ prevLandmarks = Null
    /\ verticalHistory = <<>>
    /\ lastLandmarks = Null
    /\ lastGesture = "NONE"
    /\ historyAfterUpdate = <<>>
    /\ prevAtCall = Null
    /\ historyAtCall = <<>>

InitSession ==
    mounted = FALSE /\ gameActive = FALSE /\ sessions = 0 /\ sessionCalls = 0

InitBuffer == buffer = <<>> /\ added = <<>>

InitDyn ==
    /\ dynResult = "pending"
    /\ dynCalls = 0
    /\ scene = "EMPTY"
    /\ sceneChanged = FALSE
    /\ tick = 0

InitOrient ==
    orientLandmarks = <<>> /\ lastOrientation = "pending" /\ orientEarlier = <<>>

\* SignStreamGame's useState initial values
InitSignStream ==
    /\ tiles = <<>>
    /\ detectedGesture = "NONE"
    /\ streak = 0
    /\ nextCharIndex = 0
    /\ currentPhraseIndex = 0
    /\ countdown = FALSE
    /\ gameOver = FALSE
    /\ hitCheckPending = TRUE
    /\ games = 0
    /\ spawned = 0

\* SpecialChallengeGame's useState and useRef initial values
InitBeat ==
    /\ beatTimerRef = 0
    /\ liveIntervals = {}
    /\ nextTimerId = 1
    /\ pendingTimeouts = {}
    /\ currentBeat = -8
    /\ loopsCompleted = 0
    /\ stageIndexRef = 0
    /\ activeSlot = -1
    /\ slotStatus = [i \in 0..7 |-> "PENDING"]
    /\ cleanupRun = FALSE
    /\ tickAfterCleanup = FALSE
    /\ starts = 0

InitExtra == InitOrient /\ InitSignStream /\ InitBeat

\* One call recognizeGesture(landmarks)
CallRecognizeGesture(landmarks) ==
    LET r == recognizeGesture(prevLandmarks, verticalHistory, landmarks)
    IN  /\ prevLandmarks' = r.prev
        /\ verticalHistory' = r.history
        /\ lastLandmarks' = landmarks
        /\ lastGesture' = r.gesture
        /\ historyAfterUpdate' = r.updated
        /\ prevAtCall' = prevLandmarks
        /\ historyAtCall' = verticalHistory

\* A caller passes a detected hand
Classify ==
    /\ \E landmarks \in StaticHands : CallRecognizeGesture(landmarks)
    /\ UNCHANGED <<extraVars, sessionVars, bufferVars, dynVars>>

\* A caller passes no hand (null or an empty array)
ClassifyEmpty ==
    /\ CallRecognizeGesture(Null)
    /\ UNCHANGED <<extraVars, sessionVars, bufferVars, dynVars>>

NextStatic == Classify \/ ClassifyEmpty

InitRecognizer ==
    InitStatic /\ InitSession /\ InitBuffer /\ InitDyn /\ InitExtra /\ maxSize = DefaultMaxSize

SpecStatic == InitRecognizer /\ [][NextStatic]_vars

(***************************************************************************)
(* Calls of checkOrientation (SignStreamGame.tsx:181 calls it for every    *)
(* detected hand).  The hands are pointing hands at two wrist places with  *)
(* the index tip moved to a grid place around the wrist.                   *)
(***************************************************************************)

TipOffsets == {-200, -100, 0, 100, 200}

OrientHands ==
    {[HandAt("POINT", w[1], w[2]) EXCEPT ![8] = Pt(w[1] + ox, w[2] + oy)] :
        w \in {<<500, 500>>, <<300, 600>>}, ox \in TipOffsets, oy \in TipOffsets}

\* const orientation = checkOrientation(landmarks), for a hand or for none
CheckOrientation ==
    /\ \E landmarks \in OrientHands \cup {Null} :
          /\ orientLandmarks' = landmarks
          /\ lastOrientation' = checkOrientation(landmarks)
    /\ orientEarlier' = IF lastOrientation = "pending" THEN <<>>
                        ELSE [landmarks |-> orientLandmarks, orientation |-> lastOrientation]
    /\ UNCHANGED <<streamVars, beatVars, staticVars, sessionVars, bufferVars, dynVars>>

NextOrient == CheckOrientation

InitOrientCalls ==
    /\ InitStatic /\ InitSession /\ InitBuffer /\ InitDyn /\ InitExtra
    /\ maxSize = DefaultMaxSize

SpecOrient == InitOrientCalls /\ [][NextOrient]_vars

(***************************************************************************)
(* SpecialChallengeGame (src/unnamed/part_002): while the component is on  *)
(* screen predictWebcam classifies the first detected hand.               *)
(***************************************************************************)

MaxLetterCalls == 2

InitChallenge ==
    /\ InitStatic /\ InitBuffer /\ InitDyn /\ InitExtra /\ maxSize = DefaultMaxSize
    /\ mounted = TRUE /\ gameActive = FALSE /\ sessions = 0 /\ sessionCalls = 0

\* const gesture = recognizeGesture(results.landmarks[0])
PredictLetter ==
    /\ mounted
    /\ sessionCalls < MaxLetterCalls
    /\ \E landmarks \in LetterHands : CallRecognizeGesture(landmarks)
    /\ sessionCalls' = sessionCalls + 1
    /\ UNCHANGED <<extraVars, mounted, gameActive, sessions, bufferVars, dynVars>>

NextLetters == PredictLetter

SpecLetters == InitChallenge /\ [][NextLetters]_vars

(***************************************************************************)
(* SignStreamGame and the page around it: the component is mounted when a  *)
(* stage is selected, predictWebcam classifies every detected hand for as  *)
(* long as it is mounted, startGame begins a game, handleBack leaves.      *)
(***************************************************************************)

MaxSessions == 2
MaxSessionCalls == 2

SessionHands == {HandAt("HORNS", 500, 500), HandAt("FIST", 500, 479)}

\* page.tsx: onSelectStage={setCurrentStage} renders the game component
SelectStage ==
    /\ ~mounted
    /\ sessions < MaxSessions
    /\ mounted' = TRUE
    /\ sessionCalls' = 0
    /\ UNCHANGED <<extraVars, gameActive, sessions, staticVars, bufferVars, dynVars>>

\* SignStreamGame.startGame: resets score, streak, tiles and phrase, then
\* (after the countdown) setGameActive(true); the recognizer is not touched
StartGame ==
    /\ mounted
    /\ ~gameActive
    /\ sessions < MaxSessions
    /\ gameActive' = TRUE
    /\ sessions' = sessions + 1
    /\ sessionCalls' = 0
    /\ UNCHANGED <<extraVars, mounted, staticVars, bufferVars, dynVars>>

\* SignStreamGame.predictWebcam: recognizeGesture(landmarks) for a detected hand
PredictWebcam ==
    /\ mounted
    /\ sessionCalls < MaxSessionCalls
    /\ \E landmarks \in SessionHands : CallRecognizeGesture(landmarks)
    /\ sessionCalls' = sessionCalls + 1
    /\ UNCHANGED <<extraVars, mounted, gameActive, sessions, bufferVars, dynVars>>

\* SignStreamGame.handleBack: stops the music and calls onBack, which unmounts
handleBack ==
    /\ mounted
    /\ mounted' = FALSE
    /\ gameActive' = FALSE
    /\ UNCHANGED <<extraVars, sessions, sessionCalls, staticVars, bufferVars, dynVars>>

NextSession == SelectStage \/ StartGame \/ PredictWebcam \/ handleBack

InitPage ==
    InitStatic /\ InitSession /\ InitBuffer /\ InitDyn /\ InitExtra /\ maxSize = DefaultMaxSize

SpecSession == InitPage /\ [][NextSession]_vars

(***************************************************************************)
(* GestureBuffer, src/unnamed/part_000                                     *)
(***************************************************************************)

MaxCapacity == 3
MaxAdds == 5

\* add without the eviction
GestureBufferAddKeepAll(buf, cap, landmarks) == Append(buf, landmarks)

\* add evicting the newest stored frame instead of the oldest
GestureBufferAddDropNewest(buf, cap, landmarks) ==
    IF Len(buf) + 1 > cap
    THEN SubSeq(buf, 1, Len(buf) - 1) \o <<landmarks>>
    ELSE Append(buf, landmarks)

\* add(landmarks) { this.buffer.push(landmarks);
\*                  if (this.buffer.length > this.maxSize) this.buffer.shift() }
GestureBufferAdd(buf, cap, landmarks) ==
    LET pushed == Append(buf, landmarks)
    IN  IF Len(pushed) > cap THEN Tail(pushed) ELSE pushed

\* clear() { this.buffer = [] }
GestureBufferClear == <<>>

\* getBuffer() { return this.buffer }
getBuffer == buffer

\* Frames of zero, one and two hands
BufferFrames ==
    { <<>>, <<HandAt("FLAT", 500, 500)>>,
      <<HandAt("FIST", 400, 500), HandAt("FLAT", 600, 500)>> }

BufferAdd ==
    /\ Len(added) < MaxAdds
    /\ \E frame \in BufferFrames :
          /\ buffer' = GestureBufferAdd(buffer, maxSize, frame)
          /\ added' = Append(added, frame)
    /\ UNCHANGED <<extraVars, maxSize, staticVars, sessionVars, dynVars>>

BufferClear ==
    /\ buffer' = GestureBufferClear
    /\ added' = <<>>
    /\ UNCHANGED <<extraVars, maxSize, staticVars, sessionVars, dynVars>>

NextBuffer == BufferAdd \/ BufferClear

\* new GestureBuffer(maxSize) for every capacity 1..MaxCapacity
InitGestureBuffer ==
    /\ InitStatic /\ InitSession /\ InitBuffer /\ InitDyn /\ InitExtra
    /\ maxSize \in 1..MaxCapacity

SpecBuffer == InitGestureBuffer /\ [][NextBuffer]_vars

(***************************************************************************)
(* Dynamic gesture matcher, recognizeDynamicGesture in src/unnamed/part_000 *)
(* A frame is a sequence of hands; frames is the buffer, oldest first.     *)
(***************************************************************************)

Max(a, b) == IF a > b THEN a ELSE b

\* frames.slice(-n)
SliceLast(frames, n) == SubSeq(frames, Max(Len(frames) - n, 0) + 1, Len(frames))

\* frames.slice(-from, -to), 0 < to < from
SliceWindow(frames, from, to) ==
    SubSeq(frames, Max(Len(frames) - from, 0) + 1, Len(frames) - to)

SeqMax(xs) == CHOOSE m \in {xs[i] : i \in DOMAIN xs} : \A i \in DOMAIN xs : xs[i] <= m
SeqMin(xs) == CHOOSE m \in {xs[i] : i \in DOMAIN xs} : \A i \in DOMAIN xs : xs[i] >= m

\* const isExtended = (tip, pip, wrist) => dist(tip, wrist) > dist(pip, wrist)
dynIsExtended(tip, pip, wrist) == dist2(tip, wrist) > dist2(pip, wrist)

checkYShape(l) ==
    /\ dynIsExtended(l[4], l[2], l[0])
    /\ dynIsExtended(l[20], l[18], l[0])
    /\ ~dynIsExtended(l[8], l[6], l[0])
    /\ ~dynIsExtended(l[12], l[10], l[0])
    /\ ~dynIsExtended(l[16], l[14], l[0])

checkOpenHand(l) ==
    l[8].y < l[5].y /\ l[12].y < l[9].y /\ l[16].y < l[13].y /\ l[20].y < l[17].y

isFist(l) ==
    /\ ~dynIsExtended(l[8], l[6], l[0])
    /\ ~dynIsExtended(l[12], l[10], l[0])
    /\ ~dynIsExtended(l[16], l[14], l[0])
    /\ ~dynIsExtended(l[20], l[18], l[0])

isFlat(l) ==
    /\ dynIsExtended(l[8], l[6], l[0])
    /\ dynIsExtended(l[12], l[10], l[0])
    /\ dynIsExtended(l[16], l[14], l[0])
    /\ dynIsExtended(l[20], l[18], l[0])

isPointing(l) ==
    /\ dynIsExtended(l[8], l[6], l[0])
    /\ ~dynIsExtended(l[12], l[10], l[0])
    /\ ~dynIsExtended(l[16], l[14], l[0])
    /\ ~dynIsExtended(l[20], l[18], l[0])

\* dThumbIndex < 0.05 && dThumbMiddle < 0.05
isTapPose(l) == dist2(l[4], l[8]) < Sq(50) /\ dist2(l[4], l[12]) < Sq(50)

\* dTI > 0.1 && dTM > 0.1
FingersApart(h) == dist2(h[4], h[8]) > Sq(100) /\ dist2(h[4], h[12]) > Sq(100)

\* frame.filter(h => Test(h)), and frame.find / frame.some through it
Filter(frame, Test(_)) == SelectSeq(frame, Test)
Some(frame, Test(_)) == \E i \in DOMAIN frame : Test(frame[i])

\* The loop counting direction changes of a trace, from index i on:
\* a step counts when |d| > 0.005 and its sign differs from the last such step
RECURSIVE CountReversals(_, _, _)
CountReversals(xs, i, lastDir) ==
    IF i > Len(xs) THEN 0
    ELSE LET d == xs[i] - xs[i - 1]
         IN  IF Abs(d) > 5
             THEN LET dir == IF d > 0 THEN 1 ELSE -1
                  IN  (IF lastDir # 0 /\ dir # lastDir THEN 1 ELSE 0)
                          + CountReversals(xs, i + 1, dir)
             ELSE CountReversals(xs, i + 1, lastDir)

\* The wrist of the first hand passing Test in each frame that has one
FirstWrists(frames, Test(_)) ==
    LET HasOne(frame) == Some(frame, Test)
        selected == SelectSeq(frames, HasOne)
    IN  [i \in DOMAIN selected |-> Filter(selected[i], Test)[1][0]]

Xs(points) == [i \in DOMAIN points |-> points[i].x]
Ys(points) == [i \in DOMAIN points |-> points[i].y]

\* 1. HELLO (Wave), lines 288-330
HelloMatches(frames) ==
    LET recent == SliceLast(frames, 20)
        openHandCount ==
            Cardinality({i \in DOMAIN recent : Some(recent[i], checkOpenHand)})
        wristXs == Xs(FirstWrists(recent, checkOpenHand))
    IN  /\ openHandCount > 14
        /\ Len(wristXs) > 10
        /\ CountReversals(wristXs, 2, 0) >= 2
        /\ SeqMax(wristXs) - SeqMin(wristXs) > 100

\* 2. YES (Y-Hand + Nod), lines 334-366; rangeY > rangeX * 1.5 as 2 rangeY > 3 rangeX
YesMatches(frames) ==
    LET currentFrame == frames[Len(frames)]
        wrists == FirstWrists(SliceLast(frames, 15), checkYShape)
        wristYs == Ys(wrists)
        wristXs == Xs(wrists)
        rangeY == SeqMax(wristYs) - SeqMin(wristYs)
        rangeX == SeqMax(wristXs) - SeqMin(wristXs)
    IN  /\ Some(currentFrame, checkYShape)
        /\ Len(wrists) > 8
        /\ CountReversals(wristYs, 2, 0) >= 2
        /\ rangeY > 100
        /\ 2 * rangeY > 3 * rangeX

\* The NO test looking for the open hand in all of the last 15 frames
NoMatchesAnyRecent(frames) ==
    LET currentFrame == frames[Len(frames)]
        window == SliceLast(frames, 15)
    IN  /\ Some(currentFrame, isTapPose)
        /\ \E i \in DOMAIN window : Some(window[i], FingersApart)

\* 3. NO (Tap), lines 370-389
NoMatches(frames) ==
    LET currentFrame == frames[Len(frames)]
        window == SliceWindow(frames, 15, 5)
    IN  /\ Some(currentFrame, isTapPose)
        /\ \E i \in DOMAIN window : Some(window[i], FingersApart)

\* Sum of the wrist heights of a frame's hands
RECURSIVE SumWristY(_)
SumWristY(frame) ==
    IF frame = <<>> THEN 0 ELSE Head(frame)[0].y + SumWristY(Tail(frame))

\* One entry of avgYs, lines 412-426, as a fraction num / den
FrameAvgY(frame) ==
    IF Len(frame) >= 2
    THEN LET fists == Filter(frame, isFist)
             flats == Filter(frame, isFlat)
         IN  IF Len(fists) > 0 /\ Len(flats) > 0
             THEN [num |-> fists[1][0].y + flats[1][0].y, den |-> 2]
             ELSE [num |-> SumWristY(frame), den |-> Len(frame)]
    ELSE IF Len(frame) = 1 THEN [num |-> frame[1][0].y, den |-> 1]
    ELSE [num |-> 1000, den |-> 1]

\* The fist and flat hand among the first two hands, lines 393-398
FistAndFlat(currentFrame) ==
    LET hand1 == currentFrame[1]
        hand2 == currentFrame[2]
    IN  IF isFist(hand1) /\ isFlat(hand2) THEN <<hand1, hand2>>
        ELSE IF isFist(hand2) /\ isFlat(hand1) THEN <<hand2, hand1>>
        ELSE <<>>

\* 4. HELP (Fist on Palm + Lift), lines 392-439; startY - endY > 0.1 on fractions
HelpMatches(frames) ==
    LET currentFrame == frames[Len(frames)]
        pair == FistAndFlat(currentFrame)
        recent == SliceLast(frames, 10)
        startY == FrameAvgY(recent[1])
        endY == FrameAvgY(recent[Len(recent)])
    IN  /\ Len(currentFrame) >= 2
        /\ pair # <<>>
        /\ dist2(pair[1][0], pair[2][9]) < Sq(150)
        /\ Len(recent) > 5
        /\ startY.num * endY.den - endY.num * startY.den
              > 100 * startY.den * endY.den

\* The pointer and its target among the first two hands, lines 443-448
PointerAndTarget(currentFrame) ==
    LET hand1 == currentFrame[1]
        hand2 == currentFrame[2]
    IN  IF isPointing(hand1) THEN <<hand1, hand2>>
        ELSE IF isPointing(hand2) THEN <<hand2, hand1>>
        ELSE <<>>

\* 5. TIME (Tap Wrist), lines 442-460
TimeMatches(frames) ==
    LET currentFrame == frames[Len(frames)]
        pair == PointerAndTarget(currentFrame)
    IN  /\ Len(currentFrame) >= 2
        /\ pair # <<>>
        /\ dist2(pair[1][8], pair[2][0]) < Sq(100)

\* The detectors with the NO test moved to the front
DetectorChainNoFirst(frames) ==
    IF NoMatches(frames) THEN "NO"
    ELSE IF HelloMatches(frames) THEN "HELLO"
    ELSE IF YesMatches(frames) THEN "YES"
    ELSE IF HelpMatches(frames) THEN "HELP"
    ELSE IF TimeMatches(frames) THEN "TIME"
    ELSE "null"

\* The detectors in the order the function runs them, first match returns
DetectorChain(frames) ==
    IF HelloMatches(frames) THEN "HELLO"
    ELSE IF YesMatches(frames) THEN "YES"
    ELSE IF NoMatches(frames) THEN "NO"
    ELSE IF HelpMatches(frames) THEN "HELP"
    ELSE IF TimeMatches(frames) THEN "TIME"
    ELSE "null"

\* recognizeDynamicGesture without the return for an empty current frame
recognizeDynamicGestureAnyLastFrame(frames) ==
    IF Len(frames) < 5 THEN "null"
    ELSE DetectorChain(frames)

\* recognizeDynamicGesture asking for 4 frames only
recognizeDynamicGestureFromFour(frames) ==
    IF Len(frames) < 4 THEN "null"
    ELSE IF Len(frames[Len(frames)]) = 0 THEN "null"
    ELSE DetectorChain(frames)

\* recognizeDynamicGesture(buffer), with frames = buffer.getBuffer()
recognizeDynamicGesture(frames) ==
    IF Len(frames) < 5 THEN "null"
    ELSE IF Len(frames[Len(frames)]) = 0 THEN "null"
    ELSE DetectorChain(frames)

(***************************************************************************)
(* The video stream fed to a GestureBuffer: the camera sees one scene, and *)
(* the performer changes to another scene at most once before the stream   *)
(* restarts.  Every tick the frame of the scene is added to the buffer.    *)
(***************************************************************************)

MaxTicks == 22

\* Calls of recognizeDynamicGesture followed between two changes of the buffer
MaxDynCalls == 2

\* A triangular oscillation of period 6 and range 150
Osc(t) == LET ph == t % 6 IN 50 * (IF ph <= 3 THEN ph ELSE 6 - ph)

Scenes ==
    {"EMPTY", "WAVE", "NOD", "TAP", "NODTAP", "LIFT", "LIFTT", "TOUCH", "TOUCHTAP",
     "WAVENOD", "NODI", "CROSS", "HOLD"}

SceneFrame(s, t) ==
    CASE s = "EMPTY" -> <<>>
      [] s = "WAVE"  -> <<HandAt("FLAT", 350 + Osc(t), 700)>>
      [] s = "NOD"   -> <<HandAt("YHAND", 500, 450 + Osc(t))>>
      [] s = "TAP"   -> <<HandAt("TAP", 500, 700)>>
      [] s = "NODTAP" -> <<HandAt("YHAND", 300, 450 + Osc(t)),
                           HandAt("TAP", 700, 700)>>
      [] s = "TOUCHTAP" -> <<HandAt("TAP", 500, 700), HandAt("POINT", 550, 920)>>
      [] s = "LIFT"  -> <<HandAt("FIST", 500, 840 - 30 * t),
                          HandAt("FLAT", 500, 990 - 30 * t)>>
      [] s = "LIFTT" -> <<HandAt("FLAT", 500, 990 - 30 * t),
                          HandAt("FISTT", 500, 840 - 30 * t)>>
      [] s = "TOUCH" -> <<HandAt("YHAND", 500, 450 + Osc(t)),
                          HandAt("POINT", 550, 670 + Osc(t))>>
      [] s = "WAVENOD" -> <<HandAt("FLAT", 250 + Osc(t), 800),
                            HandAt("YHAND", 750, 350 + Osc(t))>>
      [] s = "NODI"  -> <<HandAt("IHAND", 500, 450 + Osc(t))>>
      [] s = "CROSS" -> <<HandAt("POINT", 500, 500), HandAt("POINT", 500, 700)>>
      [] s = "HOLD"  -> <<HandAt("FIST", 500, 690), HandAt("FLAT", 500, 840)>>

InitStream ==
    /\ dynResult = "pending"
    /\ dynCalls = 0
    /\ scene \in Scenes
    /\ sceneChanged = FALSE
    /\ tick = 0

\* buffer.add(frame) with the frame of this tick
DynAdd ==
    /\ tick < MaxTicks
    /\ \E s \in Scenes :
          /\ s = scene \/ ~sceneChanged
          /\ scene' = s
          /\ sceneChanged' = (sceneChanged \/ s # scene)
          /\ buffer' = GestureBufferAdd(buffer, maxSize, SceneFrame(s, tick))
          /\ added' = Append(added, SceneFrame(s, tick))
    /\ tick' = tick + 1
    /\ dynResult' = "pending"
    /\ dynCalls' = 0
    /\ UNCHANGED <<extraVars, maxSize, staticVars, sessionVars>>

\* recognizeDynamicGesture(buffer) that also empties the buffer it scanned
DynRecognizeConsuming ==
    /\ dynCalls < MaxDynCalls
    /\ dynResult' = recognizeDynamicGesture(getBuffer)
    /\ dynCalls' = dynCalls + 1
    /\ buffer' = <<>>
    /\ UNCHANGED <<extraVars, scene, sceneChanged, tick, maxSize, added, staticVars, sessionVars>>

\* recognizeDynamicGesture(buffer): the scan reads the frames and writes nothing
DynRecognize ==
    /\ dynCalls < MaxDynCalls
    /\ dynResult' = recognizeDynamicGesture(getBuffer)
    /\ dynCalls' = dynCalls + 1
    /\ UNCHANGED <<extraVars, scene, sceneChanged, tick, bufferVars, staticVars, sessionVars>>

\* buffer.clear(); the stream starts over
DynClear ==
    /\ buffer # <<>>
    /\ buffer' = GestureBufferClear
    /\ added' = <<>>
    /\ dynResult' = "pending"
    /\ dynCalls' = 0
    /\ \E s \in Scenes : scene' = s
    /\ sceneChanged' = FALSE
    /\ tick' = 0
    /\ UNCHANGED <<extraVars, maxSize, staticVars, sessionVars>>

NextDyn == DynAdd \/ DynRecognize \/ DynClear

InitActionGame ==
    /\ InitStatic /\ InitSession /\ InitBuffer /\ InitStream /\ InitExtra
    /\ maxSize = DefaultMaxSize

SpecDyn == InitActionGame /\ [][NextDyn]_vars

(***************************************************************************)
(* ActionGame (src/unnamed/part_003): the component owns one               *)
(* GestureBuffer(30); every video tick predictWebcam adds the detected     *)
(* hands to it, when there are any, and runs the dynamic matcher.          *)
(***************************************************************************)

\* useRef(new GestureBuffer(30))
ActionMaxSize == 30

MaxActionTicks == 33

ActionScenes == {"EMPTY", "WAVE", "HOLD", "TAP"}

InitActionMounted ==
    /\ InitStatic /\ InitBuffer /\ InitStream /\ InitExtra
    /\ scene \in ActionScenes
    /\ maxSize = ActionMaxSize
    /\ mounted = TRUE /\ gameActive = FALSE /\ sessions = 0 /\ sessionCalls = 0

\* predictWebcam calling the matcher on every tick, hands or not
ActionPredictWebcamAlwaysCalling ==
    /\ mounted
    /\ tick < MaxActionTicks
    /\ \E s \in ActionScenes :
          /\ s = scene \/ ~sceneChanged
          /\ scene' = s
          /\ sceneChanged' = (sceneChanged \/ s # scene)
          /\ LET landmarks == SceneFrame(s, tick)
             IN  IF Len(landmarks) > 0
                 THEN /\ buffer' = GestureBufferAdd(buffer, maxSize, landmarks)
                      /\ added' = Append(added, landmarks)
                      /\ dynResult' = recognizeDynamicGesture(buffer')
                      /\ dynCalls' = 1
                 ELSE /\ dynResult' = recognizeDynamicGesture(buffer)
                      /\ dynCalls' = dynCalls + 1
                      /\ UNCHANGED <<buffer, added>>
    /\ tick' = tick + 1
    /\ UNCHANGED <<extraVars, maxSize, staticVars, sessionVars>>

\* predictWebcam: if (results.landmarks.length > 0) { add; recognizeDynamicGesture }
ActionPredictWebcam ==
    /\ mounted
    /\ tick < MaxActionTicks
    /\ \E s \in ActionScenes :
          /\ s = scene \/ ~sceneChanged
          /\ scene' = s
          /\ sceneChanged' = (sceneChanged \/ s # scene)
          /\ LET landmarks == SceneFrame(s, tick)
             IN  IF Len(landmarks) > 0
                 THEN /\ buffer' = GestureBufferAdd(buffer, maxSize, landmarks)
                      /\ added' = Append(added, landmarks)
                      /\ dynResult' = recognizeDynamicGesture(buffer')
                      /\ dynCalls' = 1
                 ELSE UNCHANGED <<buffer, added, dynResult, dynCalls>>
    /\ tick' = tick + 1
    /\ UNCHANGED <<extraVars, maxSize, staticVars, sessionVars>>

\* onBack: the page takes the component off the screen
ActionBack ==
    /\ mounted
    /\ mounted' = FALSE
    /\ UNCHANGED <<extraVars, gameActive, sessions, sessionCalls, staticVars, bufferVars,
                   dynVars>>

\* The stage is selected again: a new component with a new GestureBuffer(30)
ActionMount ==
    /\ ~mounted
    /\ mounted' = TRUE
    /\ buffer' = <<>>
    /\ added' = <<>>
    /\ dynResult' = "pending"
    /\ dynCalls' = 0
    /\ \E s \in ActionScenes : scene' = s
    /\ sceneChanged' = FALSE
    /\ tick' = 0
    /\ UNCHANGED <<extraVars, maxSize, gameActive, sessions, sessionCalls, staticVars>>

NextAction == ActionPredictWebcam \/ ActionBack \/ ActionMount

SpecAction == InitActionMounted /\ [][NextAction]_vars

(***************************************************************************)
(* SignStreamGame (src/components/SignStreamGame.tsx): falling tiles.      *)
(* Heights are in tenths of the source's units (-20 is -200, 100 is 1000,  *)
(* 110 is 1100), deltaTime is in ms, a multiple of 50, and speeds are in   *)
(* units of 0.002 per ms (0.04 is 20), so speed * deltaTime is             *)
(* (speed * deltaTime) \div 50 tenths exactly.  The stage has             *)
(* speedMultiplier 1.                                                      *)
(***************************************************************************)

MaxGames == 2

\* stage.phrases
StagePhrases == << <<"A", "B">>, <<"B">> >>

currentPhrase == StagePhrases[currentPhraseIndex + 1]

\* What predictWebcam may report
StreamGestures == {"NONE", "A", "B"}

\* time - lastTimeRef.current of one animation frame
DeltaTimes == {1000, 1050}

RECURSIVE SeqMap(_, _)
SeqMap(F(_), seq) ==
    IF seq = <<>> THEN <<>> ELSE <<F(Head(seq))>> \o SeqMap(F, Tail(seq))

RECURSIVE SeqFilter(_, _)
SeqFilter(P(_), seq) ==
    IF seq = <<>> THEN <<>>
    ELSE (IF P(Head(seq)) THEN <<Head(seq)>> ELSE <<>>) \o SeqFilter(P, Tail(seq))

\* prev.findIndex(t => !t.isHit && !t.isMissed), 0 for -1
firstActiveTileIndex(prev) ==
    IF \E i \in DOMAIN prev : ~prev[i].isHit /\ ~prev[i].isMissed
    THEN CHOOSE i \in DOMAIN prev :
            /\ ~prev[i].isHit /\ ~prev[i].isMissed
            /\ \A k \in 1..(i - 1) : prev[k].isHit \/ prev[k].isMissed
    ELSE 0

\* The map callback of updateGame's setTiles without its first line
MoveTileAlways(tile, deltaTime) ==
    LET newY == tile.y + (tile.speed * deltaTime) \div 50
    IN  IF newY > 1000 /\ ~tile.isMissed
        THEN [tile EXCEPT !.y = newY, !.isMissed = TRUE]
        ELSE [tile EXCEPT !.y = newY]

\* The map callback of updateGame's setTiles
MoveTile(tile, deltaTime) ==
    IF tile.isHit \/ tile.isMissed THEN tile
    ELSE LET newY == tile.y + (tile.speed * deltaTime) \div 50
         IN  IF newY > 1000 /\ ~tile.isMissed
             THEN [tile EXCEPT !.y = newY, !.isMissed = TRUE]
             ELSE [tile EXCEPT !.y = newY]

\* setTiles(prev => prev.map(...).filter(tile => tile.y < 110))
UpdateTiles(prev, deltaTime) ==
    LET Move(tile) == MoveTile(tile, deltaTime)
        Keep(tile) == tile.y < 1100
    IN  SeqFilter(Keep, SeqMap(Move, prev))

\* The updater of the hit-check effect taking any active tile of that character
HitTilesAnyMatching(prev, gesture) ==
    LET matching == { i \in DOMAIN prev :
                        ~prev[i].isHit /\ ~prev[i].isMissed /\ prev[i].char = gesture }
    IN  IF matching # {}
        THEN [prev EXCEPT ![CHOOSE i \in matching : \A k \in matching : i <= k].isHit = TRUE]
        ELSE prev

\* The updater of the hit-check effect
HitTiles(prev, gesture) ==
    LET idx == firstActiveTileIndex(prev)
    IN  IF idx # 0 /\ prev[idx].char = gesture
        THEN [prev EXCEPT ![idx].isHit = TRUE]
        ELSE prev

\* startGame up to the start of its countdown interval
startGame ==
    /\ mounted /\ ~gameActive /\ ~countdown
    /\ games < MaxGames
    /\ games' = games + 1
    /\ streak' = 0
    /\ tiles' = <<>>
    /\ countdown' = TRUE
    /\ currentPhraseIndex' = 0
    /\ nextCharIndex' = 0
    /\ gameOver' = FALSE
    /\ hitCheckPending' = (hitCheckPending \/ streak # 0)
    /\ UNCHANGED <<orientVars, beatVars, detectedGesture, spawned, sessionVars, staticVars,
                   bufferVars, dynVars>>

\* The last tick of startGame's interval: setCountdown(null); setGameActive(true)
countdownTimer ==
    /\ countdown
    /\ countdown' = FALSE
    /\ gameActive' = TRUE
    /\ hitCheckPending' = TRUE
    /\ UNCHANGED <<orientVars, beatVars, tiles, detectedGesture, streak, nextCharIndex,
                   currentPhraseIndex, gameOver, games, spawned, mounted, sessions,
                   sessionCalls, staticVars, bufferVars, dynVars>>

\* One animation frame of updateGame
updateGame ==
    /\ gameActive /\ ~countdown
    /\ ~gameOver
    /\ \E deltaTime \in DeltaTimes, shouldSpawn \in BOOLEAN :
          LET canSpawn == shouldSpawn /\ nextCharIndex < Len(currentPhrase)
              newTile == [id |-> spawned, char |-> currentPhrase[nextCharIndex + 1],
                          y |-> -200, speed |-> 20 + streak,
                          isHit |-> FALSE, isMissed |-> FALSE]
              phraseDone == /\ shouldSpawn /\ ~canSpawn
                            /\ firstActiveTileIndex(tiles) = 0
              withNew == IF canSpawn THEN Append(tiles, newTile) ELSE tiles
              moved == SeqMap(LAMBDA t : MoveTile(t, deltaTime), withNew)
              missedNow == \E i \in DOMAIN moved : moved[i].isMissed /\ ~withNew[i].isMissed
          IN  /\ tiles' = UpdateTiles(withNew, deltaTime)
              /\ spawned' = IF canSpawn THEN spawned + 1 ELSE spawned
              /\ nextCharIndex' = IF canSpawn THEN nextCharIndex + 1
                                  ELSE IF phraseDone /\ currentPhraseIndex + 1 < Len(StagePhrases)
                                       THEN 0 ELSE nextCharIndex
              /\ currentPhraseIndex' =
                    IF phraseDone /\ currentPhraseIndex + 1 < Len(StagePhrases)
                    THEN currentPhraseIndex + 1 ELSE currentPhraseIndex
              /\ gameActive' = ~(phraseDone /\ currentPhraseIndex + 1 >= Len(StagePhrases))
              /\ gameOver' = (phraseDone /\ currentPhraseIndex + 1 >= Len(StagePhrases))
              /\ streak' = IF missedNow THEN 0 ELSE streak
              /\ hitCheckPending' = (hitCheckPending \/ streak' # streak
                                       \/ gameActive' # gameActive)
    /\ UNCHANGED <<orientVars, beatVars, detectedGesture, countdown, games, mounted, sessions,
                   sessionCalls, staticVars, bufferVars, dynVars>>

\* predictWebcam: setDetectedGesture(gesture), or "NONE" without a hand
setDetectedGesture ==
    /\ mounted
    /\ \E gesture \in StreamGestures :
          /\ detectedGesture' = gesture
          /\ hitCheckPending' = (hitCheckPending \/ gesture # detectedGesture)
    /\ UNCHANGED <<orientVars, beatVars, tiles, streak, nextCharIndex, currentPhraseIndex,
                   countdown, gameOver, games, spawned, sessionVars, staticVars,
                   bufferVars, dynVars>>

\* useEffect(..., [detectedGesture, gameActive, streak])
hitCheckEffect ==
    /\ hitCheckPending
    /\ IF ~gameActive \/ detectedGesture = "NONE"
       THEN UNCHANGED <<tiles, streak>>
       ELSE /\ tiles' = HitTiles(tiles, detectedGesture)
            /\ streak' = IF tiles' # tiles THEN streak + 1 ELSE streak
    /\ hitCheckPending' = (streak' # streak)
    /\ UNCHANGED <<orientVars, beatVars, detectedGesture, nextCharIndex, currentPhraseIndex,
                   countdown, gameOver, games, spawned, sessionVars, staticVars,
                   bufferVars, dynVars>>

NextStream == startGame \/ countdownTimer \/ updateGame \/ setDetectedGesture
                \/ hitCheckEffect

InitSignStreamGame ==
    /\ InitStatic /\ InitBuffer /\ InitDyn /\ InitExtra
    /\ maxSize = DefaultMaxSize
    /\ mounted = TRUE /\ gameActive = FALSE /\ sessions = 0 /\ sessionCalls = 0

SpecStream == InitSignStreamGame /\ [][NextStream]_vars

(***************************************************************************)
(* SpecialChallengeGame (src/unnamed/part_002): the beat loop.  The effect *)
(* on [gameActive] starts the beat with a timeout, every beat is a tick of *)
(* an interval, and a finished loop stops the interval and starts the next *)
(* stage's with another timeout.                                           *)
(***************************************************************************)

MaxStarts == 1

\* STAGE_CONFIGS.length
StageCount == 5

\* clearInterval(id)
clearInterval(live, id) == live \ {id}

\* new Array(8).fill('PENDING')
AllPending == [i \in 0..7 |-> "PENDING"]

\* handleStart (setupStageData(0); setGameActive(true)) and the run of the
\* beat effect that the change of gameActive triggers
handleStart ==
    /\ mounted /\ ~gameActive
    /\ starts < MaxStarts
    /\ starts' = starts + 1
    /\ gameOver' = FALSE
    /\ slotStatus' = AllPending
    /\ activeSlot' = -1
    /\ stageIndexRef' = 0
    /\ gameActive' = TRUE
    /\ liveIntervals' = clearInterval(liveIntervals, beatTimerRef)
    /\ currentBeat' = -8
    /\ loopsCompleted' = 0
    /\ pendingTimeouts' = pendingTimeouts \cup {"start"}
    /\ cleanupRun' = FALSE
    /\ UNCHANGED <<orientVars, tiles, detectedGesture, streak, nextCharIndex,
                   currentPhraseIndex, countdown, hitCheckPending, games, spawned,
                   beatTimerRef, nextTimerId, tickAfterCleanup, mounted, sessions,
                   sessionCalls, staticVars, bufferVars, dynVars>>

\* setTimeout(runInterval, 3000) fires: runInterval sets the interval
startTimeout ==
    /\ "start" \in pendingTimeouts
    /\ pendingTimeouts' = pendingTimeouts \ {"start"}
    /\ beatTimerRef' = nextTimerId
    /\ liveIntervals' = liveIntervals \cup {nextTimerId}
    /\ nextTimerId' = nextTimerId + 1
    /\ UNCHANGED <<orientVars, streamVars, currentBeat, loopsCompleted, stageIndexRef,
                   activeSlot, slotStatus, cleanupRun, tickAfterCleanup, starts,
                   sessionVars, staticVars, bufferVars, dynVars>>

\* The stage-transition timeout fires: setupStageData(nextStageIdx);
\* loopsCompleted = 0; currentBeat = -1; runInterval()
transitionTimeout ==
    /\ "transition" \in pendingTimeouts
    /\ pendingTimeouts' = pendingTimeouts \ {"transition"}
    /\ slotStatus' = AllPending
    /\ activeSlot' = -1
    /\ stageIndexRef' = stageIndexRef + 1
    /\ loopsCompleted' = 0
    /\ currentBeat' = -1
    /\ beatTimerRef' = nextTimerId
    /\ liveIntervals' = liveIntervals \cup {nextTimerId}
    /\ nextTimerId' = nextTimerId + 1
    /\ UNCHANGED <<orientVars, streamVars, cleanupRun, tickAfterCleanup, starts,
                   sessionVars, staticVars, bufferVars, dynVars>>

\* One tick of the interval set by runInterval.  setGameActive(false) on the
\* last stage makes the effect's cleanup run, if the component is mounted.
beatTick ==
    /\ \E id \in liveIntervals :
          LET checked == IF currentBeat >= 0 /\ slotStatus[currentBeat % 8] = "PENDING"
                         THEN [slotStatus EXCEPT ![currentBeat % 8] = "MISS"]
                         ELSE slotStatus
              beat == currentBeat + 1
              normalizedCurrentBeat == beat % 8
              loopDone == beat >= 0 /\ normalizedCurrentBeat = 0 /\ beat > 0
              nextStageIdx == stageIndexRef + 1
          IN  /\ currentBeat' = beat
              /\ tickAfterCleanup' = (tickAfterCleanup \/ cleanupRun)
              /\ IF beat < 0
                 THEN /\ activeSlot' = -1
                      /\ slotStatus' = checked
                      /\ UNCHANGED <<loopsCompleted, liveIntervals, pendingTimeouts,
                                     gameOver, gameActive, cleanupRun>>
                 ELSE IF loopDone
                 THEN /\ loopsCompleted' = loopsCompleted + 1
                      /\ slotStatus' = checked
                      /\ liveIntervals' = clearInterval(liveIntervals, beatTimerRef)
                      /\ IF nextStageIdx < StageCount
                         THEN /\ activeSlot' = -1
                              /\ pendingTimeouts' = pendingTimeouts \cup {"transition"}
                              /\ UNCHANGED <<gameOver, gameActive, cleanupRun>>
                         ELSE /\ gameOver' = (gameOver \/ mounted)
                              /\ gameActive' = FALSE
                              /\ cleanupRun' = (cleanupRun \/ gameActive)
                              /\ UNCHANGED <<activeSlot, pendingTimeouts>>
                 ELSE /\ activeSlot' = normalizedCurrentBeat
                      /\ slotStatus' = [checked EXCEPT ![normalizedCurrentBeat] = "PENDING"]
                      /\ UNCHANGED <<loopsCompleted, liveIntervals, pendingTimeouts,
                                     gameOver, gameActive, cleanupRun>>
    /\ UNCHANGED <<orientVars, tiles, detectedGesture, streak, nextCharIndex,
                   currentPhraseIndex, countdown, hitCheckPending, games, spawned,
                   beatTimerRef, nextTimerId, stageIndexRef, starts, mounted, sessions,
                   sessionCalls, staticVars, bufferVars, dynVars>>

\* The hit effect: the detected gesture is the active slot's animal
beatHit ==
    /\ gameActive /\ activeSlot # -1
    /\ slotStatus[activeSlot] = "PENDING"
    /\ slotStatus' = [slotStatus EXCEPT ![activeSlot] = "HIT"]
    /\ UNCHANGED <<orientVars, streamVars, beatTimerRef, liveIntervals, nextTimerId,
                   pendingTimeouts, currentBeat, loopsCompleted, stageIndexRef,
                   activeSlot, cleanupRun, tickAfterCleanup, starts, sessionVars,
                   staticVars, bufferVars, dynVars>>

\* handleBack: clearInterval(beatTimerRef.current); onBack() unmounts the
\* component, which runs the cleanup of the beat effect if the game is active
handleBackChallenge ==
    /\ mounted
    /\ liveIntervals' = clearInterval(liveIntervals, beatTimerRef)
    /\ mounted' = FALSE
    /\ gameActive' = FALSE
    /\ cleanupRun' = (cleanupRun \/ gameActive)
    /\ UNCHANGED <<orientVars, streamVars, beatTimerRef, nextTimerId, pendingTimeouts,
                   currentBeat, loopsCompleted, stageIndexRef, activeSlot, slotStatus,
                   tickAfterCleanup, starts, sessions, sessionCalls, staticVars,
                   bufferVars, dynVars>>

NextBeat == handleStart \/ startTimeout \/ transitionTimeout \/ beatTick \/ beatHit
              \/ handleBackChallenge

InitSpecialChallengeGame ==
    /\ InitStatic /\ InitBuffer /\ InitDyn /\ InitExtra
    /\ maxSize = DefaultMaxSize
    /\ mounted = TRUE /\ gameActive = FALSE /\ sessions = 0 /\ sessionCalls = 0

SpecBeat == InitSpecialChallengeGame /\ [][NextBeat]_vars

(***************************************************************************)
(* Properties                                                              *)
(***************************************************************************)

\* C1: for a GestureBuffer of any capacity c >= 1, after any sequence of add
\* and clear the number of stored frames is at most c.
C1_LengthAtMostCapacity == maxSize >= 1 /\ Len(getBuffer) <= maxSize

\* C1 witness: more frames were added than the capacity holds, and the buffer is full
C1_Witness == Len(added) > maxSize /\ Len(getBuffer) = maxSize

Min(a, b) == IF a < b THEN a ELSE b

\* The last n elements of a sequence
LastN(seq, n) == SubSeq(seq, Len(seq) - n + 1, Len(seq))

\* C2: getBuffer() returns exactly the last min(n, c) frames added since the
\* latest clear (or creation), oldest first; it is empty right after clear().
C2_BufferIsLastFrames ==
    getBuffer = LastN(added, Min(Len(added), maxSize))

\* C2 witness: two frames were evicted and the frames kept are not all alike
C2_Witness ==
    /\ Len(added) = maxSize + 2
    /\ maxSize >= 2
    /\ getBuffer[1] # getBuffer[maxSize]
    /\ added[1] # getBuffer[1]

\* C3: recognizeDynamicGesture returns none (null) for every buffer that holds
\* fewer than 5 frames, whatever the frames contain.
C3_FewerThanFiveFramesNone ==
    (dynResult # "pending" /\ Len(getBuffer) < 5) => dynResult = "null"

\* C3 witness: a call on 4 frames whose last frame passes the TIME test
C3_Witness ==
    /\ dynResult = "null"
    /\ Len(getBuffer) = 4
    /\ TimeMatches(getBuffer)

DetectorOrder == <<"HELLO", "YES", "NO", "HELP", "TIME">>

TestPasses(label, frames) ==
    CASE label = "HELLO" -> HelloMatches(frames)
      [] label = "YES" -> YesMatches(frames)
      [] label = "NO" -> NoMatches(frames)
      [] label = "HELP" -> HelpMatches(frames)
      [] label = "TIME" -> TimeMatches(frames)

\* C4: for every buffer on which the tests of two or more detectors pass, the
\* label returned is the one earliest in the order HELLO, YES, NO, HELP, TIME;
\* every call returns exactly one of the five labels or none.
C4_EarliestDetectorWins ==
    (dynResult # "pending") =>
        /\ dynResult \in {"HELLO", "YES", "NO", "HELP", "TIME", "null"}
        /\ Len(getBuffer) >= 5 =>
              LET passing == {i \in 1..5 : TestPasses(DetectorOrder[i], getBuffer)}
              IN  Cardinality(passing) >= 2 =>
                      \E i \in passing :
                          /\ dynResult = DetectorOrder[i]
                          /\ \A j \in passing : i <= j

\* C4 witness: the HELLO, NO and HELP tests all pass and HELLO was returned
C4_Witness ==
    /\ dynResult = "HELLO"
    /\ NoMatches(getBuffer)
    /\ HelpMatches(getBuffer)

\* C5: every call of recognizeGesture with a non-empty hand records that hand
\* as the stored previous frame, on every return path.
C5_EveryCallRecordsPrev ==
    lastLandmarks # Null => prevLandmarks = lastLandmarks

\* C6: two consecutive calls of recognizeGesture with the same hand return the
\* same label, except that after a "6-7" the second call returns another label.
C6_RepeatedCallSameLabel ==
    [][(lastLandmarks # Null /\ lastLandmarks' = lastLandmarks)
          => IF lastGesture = "6-7" THEN lastGesture' # "6-7"
             ELSE lastGesture' = lastGesture]_vars

\* Number of adjacent pairs of entries that differ
DifferingPairs(h) == Cardinality({i \in 1..(Len(h) - 1) : h[i] # h[i + 1]})

\* C7: a call with a non-empty hand returns "6-7" exactly when, after the
\* motion-history update, the history holds more than 6 entries of which at
\* least 4 adjacent pairs differ, whatever the pose; a call without a hand
\* never returns "6-7".
C7_ShakeExactlyOnOscillation ==
    /\ lastLandmarks # Null =>
          (lastGesture = "6-7" <=>
              (Len(historyAfterUpdate) >= 7 /\ DifferingPairs(historyAfterUpdate) >= 4))
    /\ lastLandmarks = Null => lastGesture # "6-7"

\* C7 witness: a shake returned for a hand whose pose is the letter A, and
\* another call whose history had 4 changes but only 6 entries returned the letter
C7_Witness ==
    /\ lastGesture = "6-7"
    /\ LetterLogic(lastLandmarks).label = "A"
    /\ Len(historyAfterUpdate) = 7
    /\ DifferingPairs(historyAfterUpdate) = 4

\* C8: when a call returns "6-7" the motion history is empty on return, and
\* the call that follows does not return "6-7", whatever hand it is given.
C8_ShakeClearsHistory ==
    [][/\ lastGesture' = "6-7" => verticalHistory' = <<>>
       /\ lastGesture = "6-7" => lastGesture' # "6-7"]_vars

\* C8 witness: a shake has just been returned on a history of 20 entries
C8_Witness ==
    /\ lastGesture = "6-7"
    /\ verticalHistory = <<>>
    /\ Len(historyAfterUpdate) = 20
    /\ prevLandmarks = lastLandmarks

\* What the claim says one call appends to the history h
C9_Appended(h, d) ==
    IF Len(h) = 20 THEN SubSeq(h, 2, 20) \o <<d>> ELSE h \o <<d>>

C9_Expected(prev, h, landmarks) ==
    IF prev = Null THEN h
    ELSE LET dy == landmarks[0].y - prev[0].y
         IN  IF dy < -20 THEN C9_Appended(h, -1)
             ELSE IF dy > 20 THEN C9_Appended(h, 1)
             ELSE h

\* C9: the motion history holds at most 20 entries, each -1 or +1; a call
\* appends -1 when the wrist moved by less than -0.02 from the stored previous
\* frame, +1 when by more than 0.02, nothing otherwise or when no previous
\* frame is stored, and drops the oldest entry when a 21st is appended.
C9_HistoryBoundedAndSigned ==
    /\ Len(verticalHistory) <= 20
    /\ \A i \in 1..Len(verticalHistory) : verticalHistory[i] \in {-1, 1}
    /\ Len(historyAfterUpdate) <= 20
    /\ lastLandmarks # Null =>
          historyAfterUpdate = C9_Expected(prevAtCall, historyAtCall, lastLandmarks)
    /\ lastLandmarks = Null => historyAfterUpdate = historyAtCall
    /\ verticalHistory \in {historyAfterUpdate, <<>>}

\* C9 witness: a call found 20 entries, appended one and dropped the oldest,
\* which differed from its successor
C9_Witness ==
    /\ Len(historyAtCall) = 20
    /\ Len(verticalHistory) = 20
    /\ historyAtCall[1] # historyAtCall[2]
    /\ verticalHistory = SubSeq(historyAtCall, 2, 20) \o <<1>>

C12_EmptyHandNoEffect ==
    lastLandmarks = Null =>
        /\ lastGesture = "NONE"
        /\ prevLandmarks = prevAtCall
        /\ verticalHistory = historyAtCall

\* C12 witness: a call without a hand found a stored frame and 6 history
\* entries and left both
C12_Witness ==
    /\ lastLandmarks = Null
    /\ prevAtCall # Null
    /\ prevLandmarks = prevAtCall
    /\ Len(historyAtCall) = 6
    /\ verticalHistory = historyAtCall

\* The HELLO condition as the claim states it: at least 14 of the last 20
\* frames with an open hand, at least 10 samples, at least 2 reversals, range
\* above 0.1
C13_Claimed(frames) ==
    LET recent == SliceLast(frames, 20)
        open == {i \in DOMAIN recent : \E k \in DOMAIN recent[i] : checkOpenHand(recent[i][k])}
        samples == Xs(FirstWrists(recent, checkOpenHand))
    IN  /\ Cardinality(open) >= 14
        /\ Len(samples) >= 10
        /\ CountReversals(samples, 2, 0) >= 2
        /\ SeqMax(samples) - SeqMin(samples) > 100

\* C13: on a buffer of at least 20 frames whose last frame has a hand, HELLO is
\* returned exactly when at least 14 of the last 20 frames contain an open
\* hand, at least 10 wrist-X samples were collected, they show at least 2
\* direction reversals and max X - min X > 0.1.
C13_HelloExactly ==
    (dynCalls > 0 /\ Len(getBuffer) >= 20 /\ getBuffer[Len(getBuffer)] # <<>>) =>
        (dynResult = "HELLO" <=> C13_Claimed(getBuffer))

\* A Y-shaped hand by the static classifier's tests: thumb extended when the
\* tip is further from the index MCP than the IP is
C14_YShaped(l) ==
    /\ isThumbExtended(l)
    /\ isExtended(l[20], l[18], l[0])
    /\ ~isExtended(l[8], l[6], l[0])
    /\ ~isExtended(l[12], l[10], l[0])
    /\ ~isExtended(l[16], l[14], l[0])

C14_Claimed(frames) ==
    LET recent == SliceLast(frames, 15)
        last == frames[Len(frames)]
        wrists == FirstWrists(recent, C14_YShaped)
        rangeY == SeqMax(Ys(wrists)) - SeqMin(Ys(wrists))
        rangeX == SeqMax(Xs(wrists)) - SeqMin(Xs(wrists))
    IN  /\ \E k \in DOMAIN last : C14_YShaped(last[k])
        /\ Len(wrists) > 8
        /\ CountReversals(Ys(wrists), 2, 0) >= 2
        /\ rangeY > 100
        /\ 2 * rangeY > 3 * rangeX

\* C14: when HELLO does not match, YES is returned exactly when the last frame
\* contains a Y-shaped hand, more than 8 of the last 15 frames contain one, the
\* wrist-Y trace has at least 2 reversals and its vertical range exceeds 0.1
\* and 1.5 times its horizontal range; the Y-shaped hands are exactly the
\* hands recognizeGesture labels Y.
C14_YesExactly ==
    /\ (dynCalls > 0 /\ Len(getBuffer) >= 5 /\ getBuffer[Len(getBuffer)] # <<>>
           /\ ~HelloMatches(getBuffer)) =>
          (dynResult = "YES" <=> C14_Claimed(getBuffer))
    /\ \A i \in DOMAIN getBuffer : \A k \in DOMAIN getBuffer[i] :
          checkYShape(getBuffer[i][k]) <=> LetterLogic(getBuffer[i][k]).label = "Y"

\* The frame at offset -k from the end of the buffer (-1 is the last frame)
C15_FrameAt(frames, k) == frames[Len(frames) - k + 1]

C15_Claimed(frames) ==
    /\ \E h \in DOMAIN C15_FrameAt(frames, 1) :
          LET l == C15_FrameAt(frames, 1)[h]
          IN  dist2(l[4], l[8]) < Sq(50) /\ dist2(l[4], l[12]) < Sq(50)
    /\ \E k \in 6..15 :
          /\ k <= Len(frames)
          /\ \E h \in DOMAIN C15_FrameAt(frames, k) :
                LET l == C15_FrameAt(frames, k)[h]
                IN  dist2(l[4], l[8]) > Sq(100) /\ dist2(l[4], l[12]) > Sq(100)

\* C15: when HELLO and YES do not match, NO is returned exactly when the last
\* frame has a hand in tap pose (thumb tip within 0.05 of the index and middle
\* tips) and a frame at an offset from -15 up to but excluding -5 has a hand
\* whose thumb-index and thumb-middle distances both exceed 0.1; an open hand
\* only in the 5 most recent frames, or more than 15 frames back, does not count.
C15_NoExactly ==
    (dynCalls > 0 /\ Len(getBuffer) >= 5 /\ getBuffer[Len(getBuffer)] # <<>>
        /\ ~HelloMatches(getBuffer) /\ ~YesMatches(getBuffer)) =>
        (dynResult = "NO" <=> C15_Claimed(getBuffer))

\* C15 witness: NO returned on 6 frames, the open hand in the first frame only
\* (offset -6, the newest frame of the window)
C15_Witness ==
    /\ dynResult = "NO"
    /\ Len(getBuffer) = 6
    /\ \A i \in 2..6 : ~Some(getBuffer[i], FingersApart)
    /\ Some(getBuffer[1], FingersApart)

\* The HELP condition as the claim states it, with at least 5 samples
C16_Claimed(frames) ==
    LET last == frames[Len(frames)]
        samples == SliceLast(frames, 10)
        first == FrameAvgY(samples[1])
        final == FrameAvgY(samples[Len(samples)])
    IN  /\ \E f, p \in DOMAIN last :
              /\ f # p
              /\ isFist(last[f])
              /\ isFlat(last[p])
              /\ dist2(last[f][0], last[p][9]) < Sq(150)
        /\ Len(samples) >= 5
        /\ first.num * final.den - final.num * first.den > 100 * first.den * final.den

\* C16: when no higher-priority detector matches, HELP is returned exactly
\* when the last frame has a fist hand and a flat hand with distance(fist
\* wrist, flat hand's middle MCP) < 0.15, the last 10 frames yield at least 5
\* per-frame Y samples and the first sample minus the last exceeds 0.1; a
\* buffer of exactly 5 such frames yields HELP.
C16_HelpExactly ==
    (dynCalls > 0 /\ Len(getBuffer) >= 5 /\ getBuffer[Len(getBuffer)] # <<>>
        /\ ~HelloMatches(getBuffer) /\ ~YesMatches(getBuffer) /\ ~NoMatches(getBuffer)) =>
        (dynResult = "HELP" <=> C16_Claimed(getBuffer))

\* One of the two hands points and its index tip is within 0.1 of the other's wrist
C17_Claimed(frames) ==
    LET last == frames[Len(frames)]
    IN  \E p, t \in DOMAIN last :
            /\ p # t
            /\ isPointing(last[p])
            /\ dist2(last[p][8], last[t][0]) < Sq(100)

\* C17: when no higher-priority detector matches and the last frame has two
\* hands, TIME is returned exactly when one of the two hands is pointing and
\* the distance from its index tip to the other hand's wrist is below 0.1,
\* whichever position the pointing hand has and also when both hands point.
C17_TimeExactly ==
    (dynCalls > 0 /\ Len(getBuffer) >= 5 /\ Len(getBuffer[Len(getBuffer)]) = 2
        /\ ~HelloMatches(getBuffer) /\ ~YesMatches(getBuffer) /\ ~NoMatches(getBuffer)
        /\ ~HelpMatches(getBuffer)) =>
        (dynResult = "TIME" <=> C17_Claimed(getBuffer))

\* The fingers among index, middle, ring, pinky that the extended test passes
C18_Extended(l) ==
    <<isExtended(l[8], l[6], l[0]), isExtended(l[12], l[10], l[0]),
      isExtended(l[16], l[14], l[0]), isExtended(l[20], l[18], l[0])>>

C18_Claimed(l) ==
    IF dist2(l[4], l[8]) < Sq(60) /\ dist2(l[4], l[12]) < Sq(60) THEN "O"
    ELSE IF dist2(l[4], l[8]) > Sq(50) /\ dist2(l[4], l[8]) < Sq(250) THEN "C"
    ELSE "B"

\* C18: when index, middle, ring and pinky are all extended and no shake
\* fires, recognizeGesture returns O if the thumb tip is within 0.06 of both
\* the index tip and the middle tip, otherwise C if the thumb-index tip
\* distance lies strictly between 0.05 and 0.25, otherwise B.
C18_OpenHandLetters ==
    (lastLandmarks # Null /\ lastGesture # "6-7"
        /\ C18_Extended(lastLandmarks) = <<TRUE, TRUE, TRUE, TRUE>>) =>
        lastGesture = C18_Claimed(lastLandmarks)

\* The listed groups as <<index, middle, ring, pinky>>: none, index only,
\* index+middle, index+middle+ring, pinky only, middle+ring+pinky, all four
C19_ListedGroups ==
    {<<FALSE, FALSE, FALSE, FALSE>>, <<TRUE, FALSE, FALSE, FALSE>>,
     <<TRUE, TRUE, FALSE, FALSE>>, <<TRUE, TRUE, TRUE, FALSE>>,
     <<FALSE, FALSE, FALSE, TRUE>>, <<FALSE, TRUE, TRUE, TRUE>>,
     <<TRUE, TRUE, TRUE, TRUE>>}

\* C19: when the set of extended fingers among index, middle, ring and pinky
\* is none of the listed groups and no shake fires, recognizeGesture returns NONE.
C19_UnlistedGroupNone ==
    (lastLandmarks # Null /\ lastGesture # "6-7"
        /\ C18_Extended(lastLandmarks) \notin C19_ListedGroups) =>
        lastGesture = "NONE"

C20_Within(a, b) == dist2(a, b) < Sq(50)

C20_Claimed(l) ==
    IF dist2(l[4], l[5]) > dist2(l[3], l[5]) THEN "A"
    ELSE IF C20_Within(l[4], l[6]) \/ C20_Within(l[4], l[5]) THEN "T"
    ELSE IF C20_Within(l[4], l[10]) \/ C20_Within(l[4], l[9]) THEN "N"
    ELSE IF C20_Within(l[4], l[14]) \/ C20_Within(l[4], l[18]) THEN "M"
    ELSE IF C20_Within(l[4], l[7]) THEN "S"
    ELSE "E"

\* Places within 0.05 of the index MCP, on a grid of 0.01
C20_NearIndexMcp(l) ==
    {q \in {Pt(l[5].x + 10 * i, l[5].y + 10 * j) : i, j \in -5..5} : C20_Within(q, l[5])}

\* C20: when none of index, middle, ring and pinky is extended and no shake
\* fires, recognizeGesture returns A if the thumb is extended and otherwise
\* the first match in the order T, N, M, S, else E; for every fist that yields
\* S, moving only the thumb tip to within 0.05 of the index MCP yields T.
C20_FistLetters ==
    (lastLandmarks # Null /\ lastGesture # "6-7"
        /\ C18_Extended(lastLandmarks) = <<FALSE, FALSE, FALSE, FALSE>>) =>
        /\ lastGesture = C20_Claimed(lastLandmarks)
        /\ lastGesture = "S" =>
              \A q \in C20_NearIndexMcp(lastLandmarks) :
                  recognizeGesture(prevLandmarks, verticalHistory,
                                   [lastLandmarks EXCEPT ![4] = q]).gesture = "T"

\* C20 witness: T returned for a fist whose thumb tip is within 0.05 of the
\* index MCP and of the index DIP, the thumb not extended
C20_Witness ==
    /\ lastGesture = "T"
    /\ C18_Extended(lastLandmarks) = <<FALSE, FALSE, FALSE, FALSE>>
    /\ C20_Within(lastLandmarks[4], lastLandmarks[5])
    /\ C20_Within(lastLandmarks[4], lastLandmarks[7])

\* The orientation of a 21-landmark hand as the claim states it
C21_Claimed(l) ==
    IF Abs(l[8].x - l[0].x) > Abs(l[8].y - l[0].y) THEN "SIDE"
    ELSE IF l[8].y < l[0].y THEN "UP"
    ELSE "DOWN"

\* C21: checkOrientation returns NONE for an empty or missing hand; for a
\* hand it returns SIDE exactly when |x8 - x0| > |y8 - y0|, otherwise UP
\* exactly when y8 < y0, otherwise DOWN; equal horizontal and vertical
\* displacement, zero included, is never SIDE.
C21_OrientationRule ==
    lastOrientation # "pending" =>
        /\ orientLandmarks = Null => lastOrientation = "NONE"
        /\ orientLandmarks # Null =>
              /\ lastOrientation = C21_Claimed(orientLandmarks)
              /\ Abs(orientLandmarks[8].x - orientLandmarks[0].x)
                    = Abs(orientLandmarks[8].y - orientLandmarks[0].y)
                    => lastOrientation # "SIDE"

\* C21 witness: the index tip on the wrist (zero displacement) gave DOWN
C21_Witness ==
    /\ lastOrientation = "DOWN"
    /\ orientLandmarks # Null
    /\ orientLandmarks[8].x = orientLandmarks[0].x
    /\ orientLandmarks[8].y = orientLandmarks[0].y

C22_Sign(n) == IF n > 0 THEN 1 ELSE IF n < 0 THEN -1 ELSE 0

\* Two hands with the same relative x ordering and the same relative y
\* ordering of wrist and index tip
C22_SameOrdering(a, b) ==
    /\ C22_Sign(a[8].x - a[0].x) = C22_Sign(b[8].x - b[0].x)
    /\ C22_Sign(a[8].y - a[0].y) = C22_Sign(b[8].y - b[0].y)

C22_SameDominance(a, b) ==
    (Abs(a[8].x - a[0].x) > Abs(a[8].y - a[0].y))
        <=> (Abs(b[8].x - b[0].x) > Abs(b[8].y - b[0].y))

\* C22: the result of checkOrientation is unchanged by any transformation of
\* the hand that preserves the relative x ordering and the relative y ordering
\* of the wrist and the index fingertip.
C22_OrderingDecides ==
    (orientEarlier # <<>> /\ orientLandmarks # Null /\ orientEarlier.landmarks # Null
        /\ C22_SameOrdering(orientEarlier.landmarks, orientLandmarks)) =>
        lastOrientation = orientEarlier.orientation

\* C22 amended: the result is unchanged by any transformation that preserves
\* the relative x ordering, the relative y ordering and whether the horizontal
\* displacement exceeds the vertical one.
C22_OrderingAndDominanceDecide ==
    (orientEarlier # <<>> /\ orientLandmarks # Null /\ orientEarlier.landmarks # Null
        /\ C22_SameOrdering(orientEarlier.landmarks, orientLandmarks)
        /\ C22_SameDominance(orientEarlier.landmarks, orientLandmarks)) =>
        lastOrientation = orientEarlier.orientation

\* C22 witness: a hand moved to another wrist place with its index tip
\* displacement changed from (0.1, -0.1) to (0.1, -0.2), UP both times
C22_Witness ==
    /\ orientEarlier # <<>>
    /\ orientLandmarks # Null
    /\ orientEarlier.landmarks # Null
    /\ orientEarlier.landmarks[0] # orientLandmarks[0]
    /\ orientEarlier.landmarks[8].x - orientEarlier.landmarks[0].x = 100
    /\ orientEarlier.landmarks[8].y - orientEarlier.landmarks[0].y = -100
    /\ orientLandmarks[8].x - orientLandmarks[0].x = 100
    /\ orientLandmarks[8].y - orientLandmarks[0].y = -200
    /\ lastOrientation = "UP"
    /\ orientEarlier.orientation = "UP"

\* C23: if the most recent frame of the buffer contains no hands,
\* recognizeDynamicGesture returns none whatever the earlier frames contain,
\* also when the HELLO conditions hold over the last 20 frames.
C23_EmptyLastFrameNone ==
    (dynCalls > 0 /\ getBuffer # <<>> /\ getBuffer[Len(getBuffer)] = <<>>) =>
        dynResult = "null"

\* C23 witness: none returned on 20 frames, 19 waving open hands and then a
\* frame without hands, the HELLO test passing
C23_Witness ==
    /\ dynCalls > 0
    /\ dynResult = "null"
    /\ Len(getBuffer) = 20
    /\ getBuffer[20] = <<>>
    /\ HelloMatches(getBuffer)

\* The frames of the 10-frame window that have hands
C24_HandFrames(frames) ==
    LET HasHands(f) == f # <<>>
    IN  SelectSeq(SliceLast(frames, 10), HasHands)

\* The hands rose by more than 0.1 between the first frame with hands and the last
C24_HandsRose(frames) ==
    LET hf == C24_HandFrames(frames)
        first == FrameAvgY(hf[1])
        final == FrameAvgY(hf[Len(hf)])
    IN  /\ hf # <<>>
        /\ first.num * final.den - final.num * first.den > 100 * first.den * final.den

\* C24: the placeholder 1 recorded for a frame with no hands is filtered out:
\* HELP is never returned when the first frame of the 10-frame window has no
\* hands and the hands did not rise by more than 0.1.
C24_PlaceholderFiltered ==
    (dynCalls > 0 /\ Len(getBuffer) >= 5 /\ SliceLast(getBuffer, 10)[1] = <<>>
        /\ ~C24_HandsRose(getBuffer)) =>
        dynResult # "HELP"

\* C25: from the initial state no call of recognizeGesture appends a
\* motion-history entry or returns "6-7" until an earlier call has returned
\* NONE through the final fall-through path: while no previous frame is stored
\* the history stays empty and no shake is returned, and the first frame is
\* stored by a call with a hand that returns NONE; letters never store one.
C25_NothingBeforeFallThrough ==
    [][prevLandmarks = Null =>
          /\ verticalHistory = <<>>
          /\ verticalHistory' = <<>>
          /\ historyAfterUpdate' = <<>>
          /\ lastGesture' # "6-7"
          /\ prevLandmarks' # Null =>
                (lastGesture' = "NONE" /\ lastLandmarks' # Null
                    /\ prevLandmarks' = lastLandmarks')]_vars

\* C25 witness: the first entry of the history, appended by a call that found
\* the frame stored by a NONE fall-through; and the call returned a letter
C25_Witness ==
    /\ historyAtCall = <<>>
    /\ Len(historyAfterUpdate) = 1
    /\ prevAtCall # Null
    /\ LetterLogic(prevAtCall).label = "NONE"
    /\ lastGesture = "A"

\* C26: whenever recognizeGesture returns a label other than "6-7" the motion
\* history it leaves does not satisfy the shake condition (more than 6 entries
\* with at least 4 adjacent changes); "6-7" is returned only by a call that
\* appended an entry, on a history of at least 7 entries that grew by at most
\* one entry per call since it was last empty.
C26_NoShakeLeftBehind ==
    [][/\ lastGesture' # "6-7" =>
            ~(Len(verticalHistory') > 6 /\ DifferingPairs(verticalHistory') >= 4)
       /\ lastGesture' = "6-7" =>
            /\ historyAfterUpdate' # historyAtCall'
            /\ Len(historyAfterUpdate') >= 7
       /\ Len(historyAfterUpdate') <= Len(verticalHistory) + 1
       /\ verticalHistory' \in {historyAfterUpdate', <<>>}]_vars

\* C26 witness: a letter returned leaving 20 entries with 3 changes
C26_Witness ==
    /\ lastGesture = "A"
    /\ Len(verticalHistory) = 20
    /\ DifferingPairs(verticalHistory) = 3

\* C27: recognizeGesture never returns J, Q or R, for any hand and any
\* motion-history state.
C27_NeverJQR == lastGesture \notin {"J", "Q", "R"}

\* C27 witness: an index-only hand pointing down with the thumb extended,
\* the pose the Q return is written for, was labelled L
C27_Witness ==
    /\ lastLandmarks # Null
    /\ C18_Extended(lastLandmarks) = <<TRUE, FALSE, FALSE, FALSE>>
    /\ isThumbExtended(lastLandmarks)
    /\ checkOrientation(lastLandmarks) = "DOWN"
    /\ lastGesture = "L"

\* C28: in ActionGame every frame stored in the gesture buffer contains at
\* least one hand, recognizeDynamicGesture is called only immediately after an
\* add, a video tick on which no hand is detected leaves the buffer unchanged,
\* and the buffer never exceeds 30 frames and is never cleared while the
\* component is mounted.
C28_ActionGameBuffer ==
    [][(mounted /\ mounted') =>
          /\ \A i \in DOMAIN buffer' : Len(buffer'[i]) >= 1
          /\ (dynResult' # dynResult \/ dynCalls' # dynCalls) =>
                (added' # added /\ dynCalls' = 1)
          /\ (tick' # tick /\ SceneFrame(scene', tick) = <<>>) => buffer' = buffer
          /\ Len(buffer') <= 30
          /\ Len(buffer') >= Len(buffer)]_vars

\* C28 witness: 32 frames were added, the buffer holds the last 30, and the
\* latest tick, without a hand, left it alone
C28_Witness ==
    /\ mounted
    /\ Len(added) = 32
    /\ Len(buffer) = 30
    /\ tick = 33
    /\ scene = "EMPTY"
    /\ dynCalls = 1

\* C29: in SignStreamGame a tile is marked hit only while the game is active,
\* only if it is the oldest tile that is neither hit nor missed, and only if
\* the detected gesture equals its character; a hit tile never becomes missed
\* and a missed tile never becomes hit.
C29_TileHits ==
    [][\A j \in DOMAIN tiles' :
          /\ (~\E i \in DOMAIN tiles : tiles[i].id = tiles'[j].id) => ~tiles'[j].isHit
          /\ \A i \in DOMAIN tiles :
                tiles[i].id = tiles'[j].id =>
                   /\ (tiles'[j].isHit /\ ~tiles[i].isHit) =>
                         /\ gameActive
                         /\ ~tiles[i].isMissed
                         /\ \A k \in 1..(i - 1) : tiles[k].isHit \/ tiles[k].isMissed
                         /\ tiles[i].char = detectedGesture
                   /\ tiles[i].isHit => (tiles'[j].isHit /\ ~tiles'[j].isMissed)
                   /\ tiles[i].isMissed => (tiles'[j].isMissed /\ ~tiles'[j].isHit)]_vars

\* C29 witness: the game is active, a missed tile is still on screen and a
\* younger tile of the detected gesture's character has been hit
C29_Witness ==
    /\ gameActive
    /\ \E i, j \in DOMAIN tiles :
          /\ i < j
          /\ tiles[i].isMissed /\ ~tiles[i].isHit
          /\ tiles[j].isHit /\ ~tiles[j].isMissed
          /\ tiles[j].char = detectedGesture

\* C30: in SpecialChallengeGame, once the beat effect's cleanup has run, no
\* further beat tick executes: no interval started by runInterval is still
\* live and no pending timeout starts one afterwards.
C30_NoBeatAfterCleanup ==
    /\ ~tickAfterCleanup
    /\ cleanupRun => liveIntervals = {}

\* C10: the first classification call of a new game session starts with an
\* empty motion history and no stored previous frame.
C10_SessionStartsClean ==
    (gameActive /\ sessionCalls = 0) =>
        (prevLandmarks = Null /\ verticalHistory = <<>>)

====
